---- MODULE Spec2Model ----
(***************************************************************************)
(* MemoryMirror: the recognition cache (src/src/recognition/cache.py), the *)
(* cooldown gates and the announcement path (src/app.py, src/app_simple.py,*)
(* src/src/audio/manager.py, src/src/ui/controller.py).                    *)
(*                                                                         *)
(* Time is in seconds.  The clock advances in steps of Tick seconds, so    *)
(* that the boundaries of the TTL (30 s), the sweep interval (60 s) and    *)
(* the cooldown (30 s) are met exactly as well as passed.                  *)
(***************************************************************************)
EXTENDS Integers, Sequences, FiniteSets, TLC

\* ------------------------------------------------------------ bounds
Tick == 10
StartTime == 100
MaxTime == 170
MaxCap == 2
MaxRequests == 1
MaxCalls == 3
MaxClock == 140
MaxThreads == 2
MaxDistance == 50
NegativeDistances == 4
MaxLookups == 2

\* ------------------------------------------------- program constants
ttl_seconds == 30
cleanup_interval == 60
recognition_cooldown == 30
voice_cooldown == 30
default_message_cooldown == 30

Keys == {"f1", "f2", "f3"}
Persons == {"alice", "bob"}
None == "None"
NoEntry == [result |-> None, timestamp |-> 0, hit_count |-> 0]
\* the value standing for a person id that is not a key of a
\* last-announced dict
NoTime == -1
\* values passed to AudioManager.set_message_cooldown
CooldownInputs == {-10, 0, 10, 30}

VARIABLES
    \* RecognitionCache
    max_size, cache, access_order, hit_count, miss_count, total_requests,
    last_cleanup,
    \* the clock (datetime.now(), time.time())
    now,
    \* the last call made and what it returned
    call,
    \* threads calling the cache: where each is in its call, the call's
    \* arguments and return value, and the owner of RecognitionCache.lock
    pc, targs, tret, lock,
    \* the calls applied one at a time in the order the lock was taken
    seq, sret, ncalls,
    \* MemoryMirrorApp (app.py): person id -> time of the last announcement
    last_recognition_time,
    \* MemoryMirrorApp (app.py): the components initialize_components built
    components,
    \* MemoryMirrorApp.run: st.session_state.camera_running, and how the
    \* last call of run left the camera loop
    camera_running, run_exit,
    \* VideoCapture: the cv2 capture (None, "closed" or "open")
    cap, is_initialized,
    \* FaceRecognizer: its configuration, and the last call of recognize_face
    \* with what it returned
    recognizer, recognition,
    \* the last call of FaceRecognizer._distance_to_confidence
    conversion,
    \* the last call of FrameProcessor.is_frame_suitable
    suitability,
    \* MemoryMirrorApp (app_simple.py)
    last_voice_time,
    \* AudioManager
    audio_enabled, message_cooldown, last_played, is_playing,
    current_audio_file,
    \* the playback threads started by play_voice_message
    threads,
    \* pygame.mixer.music: the audio file playing, or None when not busy
    music,
    \* time each person's message last started to play
    started,
    \* the last event: a processed frame, a display update, a playback start
    ev

cacheVars == <<max_size, cache, access_order, hit_count, miss_count,
               total_requests, last_cleanup>>
concVars == <<pc, targs, tret, lock, seq, sret, ncalls>>
amVars == <<audio_enabled, message_cooldown, last_played, is_playing,
            current_audio_file, threads, music>>
runVars == <<camera_running, run_exit, cap, is_initialized>>
recVars == <<recognizer, recognition, conversion>>
procVars == <<suitability>>
appVars == <<components, runVars, recVars, procVars>>
annVars == <<last_recognition_time, appVars, last_voice_time, amVars,
             started, ev>>
vars == <<max_size, cache, access_order, hit_count, miss_count,
          total_requests, last_cleanup, now, call,
          pc, targs, tret, lock, seq, sret, ncalls,
          last_recognition_time, components, camera_running, run_exit, cap,
          is_initialized, recognizer, recognition, conversion, suitability,
          last_voice_time,
          audio_enabled, message_cooldown, last_played, is_playing,
          current_audio_file, threads, music, started, ev>>

Threads == {"t1", "t2"}

\* ------------------------------------------------------- list helpers
RECURSIVE Without(_, _)
\* list.remove(x) on a list that holds x at most once; also the list
\* without x when x is not in it
Without(s, x) ==
    IF s = <<>> THEN <<>>
    ELSE IF Head(s) = x THEN Tail(s)
    ELSE <<Head(s)>> \o Without(Tail(s), x)

RECURSIVE WithoutAll(_, _)
WithoutAll(s, xs) ==
    IF s = <<>> THEN <<>>
    ELSE IF Head(s) \in xs THEN WithoutAll(Tail(s), xs)
    ELSE <<Head(s)>> \o WithoutAll(Tail(s), xs)

Range(s) == {s[i] : i \in 1..Len(s)}

\* ------------------------------------------------- RecognitionCache
\* The cache object as a record c: the fields of RecognitionCache.
CacheKeys(c) == {k \in Keys : c.cache[k] # NoEntry}

CacheEntry(result, t) == [result |-> result, timestamp |-> t, hit_count |-> 0]

is_expired_ge(entry, t) == (t - entry.timestamp) >= ttl_seconds

is_expired(entry, t) == (t - entry.timestamp) > ttl_seconds

_remove_entry_map_only(c, key) ==
    [c EXCEPT !.cache = [c.cache EXCEPT ![key] = NoEntry]]

_remove_entry(c, key) ==
    [c EXCEPT !.cache = [c.cache EXCEPT ![key] = NoEntry],
              !.access_order = Without(c.access_order, key)]

RECURSIVE _remove_entries(_, _)
_remove_entries(c, keys) ==
    IF keys = {} THEN c
    ELSE LET k == CHOOSE x \in keys : TRUE
         IN _remove_entries(_remove_entry(c, k), keys \ {k})

_evict_mru(c) ==
    IF c.access_order = <<>> THEN c
    ELSE _remove_entry(c, c.access_order[Len(c.access_order)])

_evict_lru(c) ==
    IF c.access_order = <<>> THEN c
    ELSE _remove_entry(c, c.access_order[1])

_cleanup_expired(c, t) ==
    _remove_entries(c, {k \in CacheKeys(c) : is_expired(c.cache[k], t)})

_maybe_cleanup_ge(c, t) ==
    IF (t - c.last_cleanup) >= cleanup_interval
    THEN [_cleanup_expired(c, t) EXCEPT !.last_cleanup = t]
    ELSE c

_maybe_cleanup(c, t) ==
    IF (t - c.last_cleanup) > cleanup_interval
    THEN [_cleanup_expired(c, t) EXCEPT !.last_cleanup = t]
    ELSE c

get_unpromoted(c, frame_hash, t) ==
    LET c1 == [c EXCEPT !.total_requests = @ + 1]
    IN  IF c.cache[frame_hash] = NoEntry
        THEN [c |-> [c1 EXCEPT !.miss_count = @ + 1], ret |-> None]
        ELSE IF is_expired(c.cache[frame_hash], t)
        THEN [c |-> [_remove_entry(c1, frame_hash) EXCEPT !.miss_count = @ + 1],
              ret |-> None]
        ELSE [c |-> [c1 EXCEPT
                       !.cache = [@ EXCEPT ![frame_hash].hit_count = @ + 1],
                       !.hit_count = @ + 1],
              ret |-> c.cache[frame_hash].result]

get_expiry_uncounted(c, frame_hash, t) ==
    LET c1 == [c EXCEPT !.total_requests = @ + 1]
    IN  IF c.cache[frame_hash] = NoEntry
        THEN [c |-> [c1 EXCEPT !.miss_count = @ + 1], ret |-> None]
        ELSE IF is_expired(c.cache[frame_hash], t)
        THEN [c |-> _remove_entry(c1, frame_hash), ret |-> None]
        ELSE [c |-> [c1 EXCEPT
                       !.access_order = Append(Without(@, frame_hash), frame_hash),
                       !.cache = [@ EXCEPT ![frame_hash].hit_count = @ + 1],
                       !.hit_count = @ + 1],
              ret |-> c.cache[frame_hash].result]

get_refreshing(c, frame_hash, t) ==
    LET c1 == [c EXCEPT !.total_requests = @ + 1]
    IN  IF c.cache[frame_hash] = NoEntry
        THEN [c |-> [c1 EXCEPT !.miss_count = @ + 1], ret |-> None]
        ELSE IF is_expired(c.cache[frame_hash], t)
        THEN [c |-> [_remove_entry(c1, frame_hash) EXCEPT !.miss_count = @ + 1],
              ret |-> None]
        ELSE [c |-> [c1 EXCEPT
                       !.access_order = Append(Without(@, frame_hash), frame_hash),
                       !.cache = [@ EXCEPT ![frame_hash].hit_count = @ + 1,
                                           ![frame_hash].timestamp = t],
                       !.hit_count = @ + 1],
              ret |-> c.cache[frame_hash].result]

\* get returns the pair of the cache after the call and the value returned
get(c, frame_hash, t) ==
    LET c1 == [c EXCEPT !.total_requests = @ + 1]
    IN  IF c.cache[frame_hash] = NoEntry
        THEN [c |-> [c1 EXCEPT !.miss_count = @ + 1], ret |-> None]
        ELSE IF is_expired(c.cache[frame_hash], t)
        THEN [c |-> [_remove_entry(c1, frame_hash) EXCEPT !.miss_count = @ + 1],
              ret |-> None]
        ELSE [c |-> [c1 EXCEPT
                       !.access_order = Append(Without(@, frame_hash), frame_hash),
                       !.cache = [@ EXCEPT ![frame_hash].hit_count = @ + 1],
                       !.hit_count = @ + 1],
              ret |-> c.cache[frame_hash].result]

put_appending(c, frame_hash, result, t) ==
    LET c1 == IF Cardinality(CacheKeys(c)) >= c.max_size THEN _evict_lru(c) ELSE c
        c2 == [c1 EXCEPT
                 !.cache = [@ EXCEPT ![frame_hash] = CacheEntry(result, t)],
                 !.access_order = Append(@, frame_hash)]
    IN  _maybe_cleanup(c2, t)

put(c, frame_hash, result, t) ==
    LET c1 == IF Cardinality(CacheKeys(c)) >= c.max_size THEN _evict_lru(c) ELSE c
        c2 == [c1 EXCEPT
                 !.cache = [@ EXCEPT ![frame_hash] = CacheEntry(result, t)],
                 !.access_order = Append(Without(@, frame_hash), frame_hash)]
    IN  _maybe_cleanup(c2, t)

invalidate_everything(c, person_id) ==
    [c EXCEPT !.cache = [k \in Keys |-> NoEntry], !.access_order = <<>>]

invalidate(c, person_id) ==
    IF person_id = None
    THEN [c EXCEPT !.cache = [k \in Keys |-> NoEntry], !.access_order = <<>>]
    ELSE _remove_entries(c, {k \in CacheKeys(c) : c.cache[k].result = person_id})

\* get_stats, lines 122-137: the counters and sizes it reports
get_stats(c) ==
    [size |-> Cardinality(CacheKeys(c)), max_size |-> c.max_size,
     hit_count |-> c.hit_count, miss_count |-> c.miss_count,
     total_requests |-> c.total_requests,
     hit_rate_percent |-> IF c.total_requests > 0
                          THEN (c.hit_count * 100) \div c.total_requests
                          ELSE 0,
     ttl_seconds |-> ttl_seconds]

\* the cache object held in the variables
Self == [max_size |-> max_size, cache |-> cache, access_order |-> access_order,
         hit_count |-> hit_count, miss_count |-> miss_count,
         total_requests |-> total_requests, last_cleanup |-> last_cleanup]

Store(c) ==
    /\ max_size' = c.max_size
    /\ cache' = c.cache
    /\ access_order' = c.access_order
    /\ hit_count' = c.hit_count
    /\ miss_count' = c.miss_count
    /\ total_requests' = c.total_requests
    /\ last_cleanup' = c.last_cleanup

\* what a call did: its operation and arguments, the value it returned,
\* the fingerprints it removed from the map and, for a get, the hit counter
\* of the entry it found
Call(op, key, arg, ret, removed) ==
    [op |-> op, key |-> key, arg |-> arg, ret |-> ret, removed |-> removed,
     hits |-> 0]

Removed(c, d) == CacheKeys(c) \ CacheKeys(d)

\* ------------------------------------------------------ AudioManager
NoThread == [pc |-> "none", person_id |-> None, file |-> None]
Slots == 1..MaxThreads

\* the AudioManager object as a record a: its fields, its playback threads
\* and the mixer it plays through
AM == [audio_enabled |-> audio_enabled, message_cooldown |-> message_cooldown,
       last_played |-> last_played, is_playing |-> is_playing,
       current_audio_file |-> current_audio_file, threads |-> threads,
       music |-> music]

StoreAM(a) ==
    /\ audio_enabled' = a.audio_enabled
    /\ message_cooldown' = a.message_cooldown
    /\ last_played' = a.last_played
    /\ is_playing' = a.is_playing
    /\ current_audio_file' = a.current_audio_file
    /\ threads' = a.threads
    /\ music' = a.music

\* AudioManager.__init__
NewAM ==
    [audio_enabled |-> TRUE, message_cooldown |-> default_message_cooldown,
     last_played |-> [p \in Persons |-> NoTime], is_playing |-> FALSE,
     current_audio_file |-> None, threads |-> [i \in Slots |-> NoThread],
     music |-> None]

Event(kind, person, eligible, busy, played, gap) ==
    [kind |-> kind, person |-> person, eligible |-> eligible, busy |-> busy,
     played |-> played, gap |-> gap, status |-> None, matcher |-> FALSE,
     detect |-> None, match |-> None, result |-> None]
NoEvent == Event("init", None, FALSE, FALSE, FALSE, NoTime)

\* initialize_components: every component is built, or its constructor
\* raised and the attribute is None
ComponentNames ==
    {"face_detector", "face_recognizer", "person_database", "audio_manager"}
AllComponents == [c \in ComponentNames |-> TRUE]

\* nothing announced yet, no audio playing
NoAnnouncements ==
    /\ last_recognition_time = [p \in Persons |-> NoTime]
    /\ last_voice_time = [p \in Persons |-> NoTime]
    /\ audio_enabled = NewAM.audio_enabled
    /\ message_cooldown = NewAM.message_cooldown
    /\ last_played = NewAM.last_played
    /\ is_playing = NewAM.is_playing
    /\ current_audio_file = NewAM.current_audio_file
    /\ threads = NewAM.threads
    /\ music = NewAM.music
    /\ started = [p \in Persons |-> NoTime]
    /\ ev = NoEvent

\* ------------------------- FaceRecognizer (src/recognition/recognizer.py)
\* Distances are counted in tenths, confidences and thresholds in fortieths,
\* so that the mean of a person's distances and 1 - distance / 2 are whole.
ConfScale == 40
Inf == 10000
Metrics == {"cosine", "euclidean", "euclidean_l2"}

\* the gallery: the directories of known_faces in the order of os.listdir
\* and the image files of each; carol's directory holds no image
PersonDirs == <<"alice", "carol", "bob">>
Images ==
    [p \in Range(PersonDirs) |->
        IF p = "alice" THEN {"a1", "a2"} ELSE IF p = "bob" THEN {"b1"} ELSE {}]
AllImages == UNION {Images[p] : p \in Range(PersonDirs)}

\* initialize_database, lines 64-73: the directories that hold an image
HasImages(person_dir) == Images[person_dir] # {}
KnownOrder == SelectSeq(PersonDirs, HasImages)

\* DeepFace.verify on one gallery image gives a distance or raises
Fails == -1
Distances == {2, 4, 9, 25}
Comparisons == [AllImages -> Distances \cup {Fails}]

Result(person_id, confidence, is_known, distance) ==
    [person_id |-> person_id, confidence |-> confidence,
     is_known |-> is_known, distance |-> distance]

\* RecognitionResult(person_id="unknown", confidence=0.0, is_known=False)
UnknownResult == Result("unknown", 0, FALSE, 0)

\* FaceRecognizer.__init__ and initialize_database: deepface is
\* DEEPFACE_AVAILABLE, initialized whether known persons were found
NewRecognizer(deepface, initialized, metric) ==
    [deepface |-> deepface,
     is_initialized |-> deepface /\ initialized,
     confidence_threshold |-> (6 * ConfScale) \div 10,
     distance_metric |-> metric,
     known_persons |-> IF deepface /\ initialized THEN KnownOrder ELSE <<>>]

\* no candidate: best_distance = float('inf'), best_person = "unknown"
NoCandidate == [person |-> "unknown", distance |-> Inf]

\* a call of recognize_face: its inputs, whether it came to compare the
\* image with the gallery, the gallery images compared without an error,
\* the best candidate after the loop, the threshold applied, and whether it
\* raised or returned, with the result
Recognition(image, listing, reached, compared, best, threshold, result) ==
    [image |-> image, listing |-> listing, reached |-> reached,
     compared |-> compared, best |-> best, threshold |-> threshold,
     raised |-> FALSE, result |-> result,
     distances |-> [i \in AllImages |-> Fails]]

NoRecognition ==
    Recognition(None, TRUE, FALSE, {}, NoCandidate, 0, UnknownResult)

\* a call of _distance_to_confidence: the distance given and the confidence
\* returned, both in fortieths
Conversion(distance, confidence) ==
    [called |-> TRUE, distance |-> distance, confidence |-> confidence]

NoConversion == [called |-> FALSE, distance |-> 0, confidence |-> 0]

\* the names distance_metric may hold: the three the code knows and another
MetricNames == Metrics \cup {"manhattan"}

Max(a, b) == IF a >= b THEN a ELSE b
Min(a, b) == IF a <= b THEN a ELSE b

_distance_to_confidence_l2_halved(r, d) ==
    LET confidence ==
            IF r.distance_metric = "cosine" THEN Max(0, ConfScale - d)
            ELSE IF r.distance_metric \in {"euclidean", "euclidean_l2"}
                 THEN Max(0, ConfScale - d \div 2)
            ELSE Max(0, ConfScale - d)
    IN  Min(ConfScale, confidence)

\* d in fortieths
_distance_to_confidence(r, d) ==
    LET confidence ==
            IF r.distance_metric = "cosine" THEN Max(0, ConfScale - d)
            ELSE IF r.distance_metric = "euclidean"
                 THEN Max(0, ConfScale - d \div 2)
            ELSE Max(0, ConfScale - d)
    IN  Min(ConfScale, confidence)

set_confidence_threshold(r, threshold) ==
    [r EXCEPT !.confidence_threshold = Max(0, Min(ConfScale, threshold))]

RECURSIVE Sum(_, _)
Sum(f, S) ==
    IF S = {} THEN 0
    ELSE LET x == CHOOSE y \in S : TRUE IN f[x] + Sum(f, S \ {x})

\* the images of person p whose comparison gave a distance
Compared(cmp, p) == {i \in Images[p] : cmp[i] # Fails}

avg_distance_summed(cmp, p) == 4 * Sum(cmp, Compared(cmp, p))

\* np.mean(person_distances), in fortieths
avg_distance(cmp, p) ==
    (4 * Sum(cmp, Compared(cmp, p))) \div Cardinality(Compared(cmp, p))

\* lines 106-146: the loop over known_persons, from the k-th person on, with
\* the best so far
RECURSIVE BestFrom(_, _, _, _)
BestFrom(r, cmp, k, best) ==
    IF k > Len(r.known_persons) THEN best
    ELSE LET p == r.known_persons[k]
             better == /\ Compared(cmp, p) # {}
                       /\ avg_distance(cmp, p) < best.distance
         IN  BestFrom(r, cmp, k + 1,
                      IF better
                      THEN [person |-> p, distance |-> avg_distance(cmp, p)]
                      ELSE best)

Best(r, cmp) == BestFrom(r, cmp, 1, NoCandidate)


\* ---------------------------- FrameProcessor (src/video/processor.py)
\* A frame: null (None), its size (0 for an empty array), whether it is a
\* BGR image that cv2.cvtColor converts to grayscale, the variance of its
\* Laplacian and its mean grayscale brightness.
Frame(null, size, bgr, sharpness, brightness) ==
    [null |-> null, size |-> size, bgr |-> bgr, sharpness |-> sharpness,
     brightness |-> brightness]

NullFrame == Frame(TRUE, 0, FALSE, 0, 0)
EmptyFrame == Frame(FALSE, 0, FALSE, 0, 0)

Sharpnesses == {0, 50, 99, 100, 101, 500}
Brightnesses == {0, 29, 30, 31, 128, 224, 225, 226, 255}
BlurThresholds == {-10, 0, 50, 100, 150}
default_blur_threshold == 100
too_dark == 30
too_bright == 225

Frames ==
    {NullFrame, EmptyFrame}
        \cup {Frame(FALSE, 1, bgr, s, b) :
                 bgr \in BOOLEAN, s \in Sharpnesses, b \in Brightnesses}

\* detect_blur, lines 105-121: 0.0 for None and when the conversion raises
detect_blur(frame) ==
    IF frame.null THEN 0
    ELSE IF ~frame.bgr THEN 0
    ELSE frame.sharpness

is_frame_suitable_exclusive(frame, blur_threshold) ==
    IF frame.null THEN FALSE
    ELSE IF frame.size = 0 THEN FALSE
    ELSE IF detect_blur(frame) < blur_threshold THEN FALSE
    ELSE IF ~frame.bgr THEN FALSE
    ELSE IF frame.brightness <= too_dark \/ frame.brightness >= too_bright
         THEN FALSE
    ELSE TRUE

\* is_frame_suitable, lines 123-152; line 140 raises on a frame that is not
\* BGR and line 150 catches it
is_frame_suitable(frame, blur_threshold) ==
    IF frame.null THEN FALSE
    ELSE IF frame.size = 0 THEN FALSE
    ELSE IF detect_blur(frame) < blur_threshold THEN FALSE
    ELSE IF ~frame.bgr THEN FALSE
    ELSE IF frame.brightness < too_dark \/ frame.brightness > too_bright
         THEN FALSE
    ELSE TRUE

\* a call of is_frame_suitable: its arguments, whether it raised, and what
\* it returned
Suitability(frame, blur_threshold, result) ==
    [called |-> TRUE, frame |-> frame, blur_threshold |-> blur_threshold,
     raised |-> FALSE, result |-> result]

NoSuitability ==
    [called |-> FALSE, frame |-> NullFrame,
     blur_threshold |-> default_blur_threshold, raised |-> FALSE,
     result |-> FALSE]

\* RecognitionCache.__init__
NewCache(m, t) ==
    [max_size |-> m, cache |-> [k \in Keys |-> NoEntry], access_order |-> <<>>,
     hit_count |-> 0, miss_count |-> 0, total_requests |-> 0, last_cleanup |-> t]

\* RecognitionCache(max_size = m) built at StartTime, no thread in a call;
\* MemoryMirrorApp with the components c
Built(m, c, r) ==
    /\ components = c
    /\ camera_running = FALSE /\ run_exit = "none"
    /\ cap = None /\ is_initialized = FALSE
    /\ recognizer = r
    /\ recognition = NoRecognition
    /\ conversion = NoConversion
    /\ suitability = NoSuitability
    /\ now = StartTime
    /\ max_size = m
    /\ cache = [k \in Keys |-> NoEntry]
    /\ access_order = <<>>
    /\ hit_count = 0 /\ miss_count = 0 /\ total_requests = 0
    /\ last_cleanup = StartTime
    /\ call = Call("init", None, None, None, {})
    /\ pc = [t \in Threads |-> "idle"]
    /\ targs = [t \in Threads |-> Call("init", None, None, None, {})]
    /\ tret = [t \in Threads |-> None]
    /\ lock = None
    /\ seq = NewCache(m, StartTime)
    /\ sret = [t \in Threads |-> None]
    /\ ncalls = 0
    /\ NoAnnouncements

Constructed(m, c) == Built(m, c, NewRecognizer(TRUE, TRUE, "cosine"))

Construct(m) == Constructed(m, AllComponents)

InitCache == \E m \in 0..MaxCap : Construct(m)

Advance ==
    /\ now + Tick <= MaxTime
    /\ now' = now + Tick
    /\ call' = Call("tick", None, None, None, {})
    /\ UNCHANGED <<cacheVars, concVars, annVars>>

Get(k) ==
    /\ total_requests < MaxRequests
    /\ LET r == get(Self, k, now)
       IN  /\ Store(r.c)
           /\ call' = Call("get", k, None, r.ret, Removed(Self, r.c))
    /\ UNCHANGED <<now, concVars, annVars>>

Put(k, p) ==
    /\ LET c == put(Self, k, p, now)
       IN  /\ Store(c)
           /\ call' = Call("put", k, p, None, Removed(Self, c))
    /\ UNCHANGED <<now, concVars, annVars>>

Invalidate(p) ==
    /\ LET c == invalidate(Self, p)
       IN  /\ Store(c)
           /\ call' = Call("invalidate", None, p, None, Removed(Self, c))
    /\ UNCHANGED <<now, concVars, annVars>>

NextCache ==
    \/ Advance
    \/ \E k \in Keys : Get(k)
    \/ \E k \in Keys, p \in Persons : Put(k, p)
    \/ \E p \in Persons \cup {None} : Invalidate(p)

SpecCache == InitCache /\ [][NextCache]_vars

\* ------------------------------ RecognitionCache read more than once
\* get, called up to MaxLookups times on a cache of MaxCap entries; what
\* is stored does not matter to the counters and the expiry, and every put
\* stores a result for the same person
Lookup(k) ==
    /\ total_requests < MaxLookups
    /\ LET r == get(Self, k, now)
       IN  /\ Store(r.c)
           /\ call' = [Call("get", k, None, r.ret, Removed(Self, r.c))
                         EXCEPT !.hits = cache[k].hit_count]
    /\ UNCHANGED <<now, concVars, annVars>>

InitHits == Construct(MaxCap)

NextHits ==
    \/ Advance
    \/ \E k \in Keys : Lookup(k)
    \/ \E k \in Keys, p \in {"alice"} : Put(k, p)
    \/ \E p \in Persons \cup {None} : Invalidate(p)

SpecHits == InitHits /\ [][NextHits]_vars

\* ------------------------------------- RecognitionCache under threads
\* Each public method is `with self.lock:` around its body; the body is
\* taken one statement group at a time, so that another thread could run
\* between any two of them if the lock let it.

CanAcquireAlways(t) == TRUE

\* threading.RLock: free, or already held by the calling thread
CanAcquire(t) == lock = None \/ lock = t

Enter(t, op, k, p, first) ==
    /\ pc[t] = "idle"
    /\ ncalls < MaxCalls
    /\ CanAcquire(t)
    /\ lock' = t
    /\ ncalls' = ncalls + 1
    /\ pc' = [pc EXCEPT ![t] = first]
    /\ targs' = [targs EXCEPT ![t] = Call(op, k, p, None, {})]
    /\ UNCHANGED <<cacheVars, now, call, tret, annVars>>

\* leaving the with block: the value is returned and the lock released
Return(t, v) ==
    /\ pc' = [pc EXCEPT ![t] = "idle"]
    /\ tret' = [tret EXCEPT ![t] = v]
    /\ lock' = None

Goto(t, label) ==
    /\ pc' = [pc EXCEPT ![t] = label]
    /\ UNCHANGED <<tret, lock>>

EnterGet(t, k) ==
    /\ seq.total_requests < MaxRequests
    /\ Enter(t, "get", k, None, "get_1")
    /\ LET r == get(seq, k, now)
       IN  seq' = r.c /\ sret' = [sret EXCEPT ![t] = r.ret]

EnterPut(t, k, p) ==
    /\ Enter(t, "put", k, p, "put_1")
    /\ seq' = put(seq, k, p, now)
    /\ sret' = [sret EXCEPT ![t] = None]

EnterInvalidate(t, p) ==
    /\ Enter(t, "invalidate", None, p, "inv_1")
    /\ seq' = invalidate(seq, p)
    /\ sret' = [sret EXCEPT ![t] = None]

\* get, lines 49-61: count the request, miss on absent or expired
Get1(t) ==
    /\ pc[t] = "get_1"
    /\ LET k == targs[t].key
           c1 == [Self EXCEPT !.total_requests = @ + 1]
       IN  IF cache[k] = NoEntry
           THEN /\ Store([c1 EXCEPT !.miss_count = @ + 1])
                /\ Return(t, None)
                /\ UNCHANGED targs
           ELSE IF is_expired(cache[k], now)
           THEN /\ Store([_remove_entry(c1, k) EXCEPT !.miss_count = @ + 1])
                /\ Return(t, None)
                /\ UNCHANGED targs
           ELSE /\ Store(c1)
                /\ Goto(t, "get_2")
                /\ targs' = [targs EXCEPT ![t].ret = cache[k].result]
    /\ UNCHANGED <<now, call, seq, sret, ncalls, annVars>>

\* get, lines 64-66: move the fingerprint to the end of access_order
Get2(t) ==
    /\ pc[t] = "get_2"
    /\ access_order' = Append(Without(access_order, targs[t].key), targs[t].key)
    /\ Goto(t, "get_3")
    /\ UNCHANGED <<max_size, cache, hit_count, miss_count, total_requests,
                   last_cleanup, now, call, targs, seq, sret, ncalls, annVars>>

\* get, lines 69-73: count the hit on the entry read at line 55, return
Get3(t) ==
    /\ pc[t] = "get_3"
    /\ LET k == targs[t].key
       IN  cache' = IF cache[k] = NoEntry THEN cache
                    ELSE [cache EXCEPT ![k].hit_count = @ + 1]
    /\ hit_count' = hit_count + 1
    /\ Return(t, targs[t].ret)
    /\ UNCHANGED <<max_size, access_order, miss_count, total_requests,
                   last_cleanup, now, call, targs, seq, sret, ncalls, annVars>>

\* put, lines 79-80
Put1(t) ==
    /\ pc[t] = "put_1"
    /\ Store(IF Cardinality(CacheKeys(Self)) >= max_size THEN _evict_lru(Self)
             ELSE Self)
    /\ Goto(t, "put_2")
    /\ UNCHANGED <<now, call, targs, seq, sret, ncalls, annVars>>

\* put, lines 83-90
Put2(t) ==
    /\ pc[t] = "put_2"
    /\ cache' = [cache EXCEPT ![targs[t].key] = CacheEntry(targs[t].arg, now)]
    /\ Goto(t, "put_3")
    /\ UNCHANGED <<max_size, access_order, hit_count, miss_count,
                   total_requests, last_cleanup, now, call, targs, seq, sret,
                   ncalls, annVars>>

\* put, lines 93-95
Put3(t) ==
    /\ pc[t] = "put_3"
    /\ access_order' = Append(Without(access_order, targs[t].key), targs[t].key)
    /\ Goto(t, "put_4")
    /\ UNCHANGED <<max_size, cache, hit_count, miss_count, total_requests,
                   last_cleanup, now, call, targs, seq, sret, ncalls, annVars>>

\* put, line 100
Put4(t) ==
    /\ pc[t] = "put_4"
    /\ Store(_maybe_cleanup(Self, now))
    /\ Return(t, None)
    /\ UNCHANGED <<now, call, targs, seq, sret, ncalls, annVars>>

\* invalidate, lines 105-107 or 112-118
Inv1(t) ==
    /\ pc[t] = "inv_1"
    /\ IF targs[t].arg = None
       THEN /\ Store([Self EXCEPT !.cache = [k \in Keys |-> NoEntry]])
            /\ Goto(t, "inv_2")
       ELSE /\ Store(invalidate(Self, targs[t].arg))
            /\ Return(t, None)
    /\ UNCHANGED <<now, call, targs, seq, sret, ncalls, annVars>>

\* invalidate, line 108
Inv2(t) ==
    /\ pc[t] = "inv_2"
    /\ access_order' = <<>>
    /\ Return(t, None)
    /\ UNCHANGED <<max_size, cache, hit_count, miss_count, total_requests,
                   last_cleanup, now, call, targs, seq, sret, ncalls, annVars>>

AllIdle == \A t \in Threads : pc[t] = "idle"

\* the clock moves between calls (a call is short against Tick), here by
\* more than the sweep interval, so that entries expire and put sweeps
AdvanceIdle ==
    /\ AllIdle
    /\ now + Tick <= MaxTime
    /\ now' = now + cleanup_interval + Tick
    /\ UNCHANGED <<cacheVars, call, concVars, annVars>>

InitConc == \E m \in 1..MaxCap : Construct(m)

NextConc ==
    \/ AdvanceIdle
    \/ \E t \in Threads, k \in Keys : EnterGet(t, k)
    \/ \E t \in Threads, k \in Keys, p \in Persons : EnterPut(t, k, p)
    \/ \E t \in Threads, p \in Persons \cup {None} : EnterInvalidate(t, p)
    \/ \E t \in Threads : Get1(t)
    \/ \E t \in Threads : Get2(t)
    \/ \E t \in Threads : Get3(t)
    \/ \E t \in Threads : Put1(t)
    \/ \E t \in Threads : Put2(t)
    \/ \E t \in Threads : Put3(t)
    \/ \E t \in Threads : Put4(t)
    \/ \E t \in Threads : Inv1(t)
    \/ \E t \in Threads : Inv2(t)

SpecConc == InitConc /\ [][NextConc]_vars

\* ---------------------------------------------------- cooldown gates
set_message_cooldown(a, seconds) ==
    [a EXCEPT !.message_cooldown = IF seconds > 0 THEN seconds ELSE 0]

_is_in_cooldown(a, person_id, t) ==
    IF a.last_played[person_id] = NoTime THEN FALSE
    ELSE (t - a.last_played[person_id]) < a.message_cooldown

\* dict.get(person_id, 0)
GetOr0(d, person_id) == IF d[person_id] = NoTime THEN 0 ELSE d[person_id]

should_play_message_from_now(lrt, person_id, t) ==
    (t - (IF lrt[person_id] = NoTime THEN t ELSE lrt[person_id]))
        > recognition_cooldown

\* MemoryMirrorApp.should_play_message (app.py)
should_play_message(lrt, person_id, t) ==
    (t - GetOr0(lrt, person_id)) > recognition_cooldown

\* SimpleAudioManager.is_currently_playing: pygame.mixer.music.get_busy()
is_currently_playing(m) == m # None

\* MemoryMirrorApp.should_play_voice_message (app_simple.py)
should_play_voice_message(lvt, person_id, t, m) ==
    LET time_passed == (t - GetOr0(lvt, person_id)) > voice_cooldown
        not_playing == ~is_currently_playing(m)
    IN  time_passed /\ not_playing

\* The three gates with the statements that record an announcement, each
\* taken in one step: the gate is asked and, when it permits, the time is
\* recorded.  The clock reads seconds since 1970 (time.time()) and starts
\* at StartTime, above every cooldown.
AdvanceGate ==
    /\ now + Tick <= MaxClock
    /\ now' = now + Tick
    /\ UNCHANGED <<cacheVars, call, concVars, annVars>>

\* app.py, lines 204 and 213
AnnounceApp(p) ==
    /\ should_play_message(last_recognition_time, p, now)
    /\ last_recognition_time' = [last_recognition_time EXCEPT ![p] = now]
    /\ UNCHANGED <<cacheVars, now, call, concVars, appVars, last_voice_time,
                   amVars,
                   started, ev>>

\* audio/manager.py, lines 70 and 113
AnnounceAudio(p) ==
    /\ ~_is_in_cooldown(AM, p, now)
    /\ last_played' = [last_played EXCEPT ![p] = now]
    /\ UNCHANGED <<cacheVars, now, call, concVars, appVars,
                   last_recognition_time, last_voice_time, audio_enabled,
                   message_cooldown,
                   is_playing, current_audio_file, threads, music, started, ev>>

\* app_simple.py, lines 300, 322-323 and 201-202
AnnounceSimple(p) ==
    /\ should_play_voice_message(last_voice_time, p, now, music)
    /\ ~is_currently_playing(music)
    /\ last_voice_time' = [last_voice_time EXCEPT ![p] = now]
    /\ music' = p
    /\ UNCHANGED <<cacheVars, now, call, concVars, appVars,
                   last_recognition_time,
                   audio_enabled, message_cooldown, last_played, is_playing,
                   current_audio_file, threads, started, ev>>

\* the message has been played to its end
MusicEnds ==
    /\ music # None
    /\ music' = None
    /\ UNCHANGED <<cacheVars, now, call, concVars, appVars,
                   last_recognition_time, last_voice_time, audio_enabled,
                   message_cooldown,
                   last_played, is_playing, current_audio_file, threads,
                   started, ev>>

SetMessageCooldown(s) ==
    /\ StoreAM(set_message_cooldown(AM, s))
    /\ UNCHANGED <<cacheVars, now, call, concVars, appVars,
                   last_recognition_time, last_voice_time, started, ev>>

InitGate == Construct(MaxCap)

NextGate ==
    \/ AdvanceGate
    \/ \E p \in Persons : AnnounceApp(p)
    \/ \E p \in Persons : AnnounceAudio(p)
    \/ \E p \in Persons : AnnounceSimple(p)
    \/ MusicEnds
    \/ \E s \in CooldownInputs : SetMessageCooldown(s)

SpecGate == InitGate /\ [][NextGate]_vars

\* ----------------------------------------- AudioManager: playback
stop_current_audio(a) ==
    IF a.is_playing
    THEN [a EXCEPT !.music = None, !.is_playing = FALSE,
                   !.current_audio_file = None]
    ELSE a

FreeSlots(a) == {i \in Slots : a.threads[i].pc = "none"}

\* threading.Thread(target=self._play_audio_file, args=(audio_file,
\* person_id)).start()
StartThread(a, file, person_id) ==
    LET i == CHOOSE j \in FreeSlots(a) : \A k \in FreeSlots(a) : j <= k
    IN  [a EXCEPT !.threads[i] =
                     [pc |-> "begin", person_id |-> person_id, file |-> file]]

\* play_voice_message(message, language, person_id): file is the audio the
\* TTS engine makes of the message, message_ok that the message is not
\* empty, tts_ok that generate_speech returned a file
play_voice_message(a, file, person_id, message_ok, tts_ok, t) ==
    IF ~a.audio_enabled THEN [a |-> a, ret |-> FALSE]
    ELSE IF ~message_ok THEN [a |-> a, ret |-> FALSE]
    ELSE IF person_id # None /\ _is_in_cooldown(a, person_id, t)
    THEN [a |-> a, ret |-> FALSE]
    ELSE LET a1 == stop_current_audio(a)
         IN  IF ~tts_ok THEN [a |-> a1, ret |-> FALSE]
             ELSE [a |-> StartThread(a1, file, person_id), ret |-> TRUE]

\* the playback thread, _play_audio_file, one statement group at a time
\* lines 104-105
ThreadBegin(i) ==
    /\ threads[i].pc = "begin"
    /\ is_playing' = TRUE
    /\ current_audio_file' = threads[i].file
    /\ threads' = [threads EXCEPT ![i].pc = "load"]
    /\ ev' = Event("thread", threads[i].file, FALSE, music # None, FALSE, NoTime)
    /\ UNCHANGED <<cacheVars, now, call, concVars, appVars,
                   last_recognition_time, last_voice_time, audio_enabled,
                   message_cooldown,
                   last_played, music, started>>

\* lines 108-109: pygame.mixer.music.load and play, which replace whatever
\* the mixer was playing; the message starts to sound
ThreadLoad(i) ==
    /\ threads[i].pc = "load"
    /\ music' = threads[i].file
    /\ threads' = [threads EXCEPT ![i].pc = "record"]
    /\ started' = [started EXCEPT ![threads[i].file] = now]
    /\ ev' = Event("play", threads[i].file, FALSE, music # None, TRUE,
                   IF started[threads[i].file] = NoTime THEN NoTime
                   ELSE now - started[threads[i].file])
    /\ UNCHANGED <<cacheVars, now, call, concVars, appVars,
                   last_recognition_time, last_voice_time, audio_enabled,
                   message_cooldown,
                   last_played, is_playing, current_audio_file>>

\* lines 112-113
ThreadRecord(i) ==
    /\ threads[i].pc = "record"
    /\ last_played' = IF threads[i].person_id # None
                      THEN [last_played EXCEPT ![threads[i].person_id] = now]
                      ELSE last_played
    /\ threads' = [threads EXCEPT ![i].pc = "wait"]
    /\ ev' = Event("thread", threads[i].file, FALSE, music # None, FALSE, NoTime)
    /\ UNCHANGED <<cacheVars, now, call, concVars, appVars,
                   last_recognition_time, last_voice_time, audio_enabled,
                   message_cooldown,
                   is_playing, current_audio_file, music, started>>

\* lines 116-117: the loop ends when the mixer is not busy
ThreadWait(i) ==
    /\ threads[i].pc = "wait"
    /\ music = None
    /\ threads' = [threads EXCEPT ![i].pc = "clear"]
    /\ ev' = Event("thread", threads[i].file, FALSE, FALSE, FALSE, NoTime)
    /\ UNCHANGED <<cacheVars, now, call, concVars, appVars,
                   last_recognition_time, last_voice_time, audio_enabled,
                   message_cooldown,
                   last_played, is_playing, current_audio_file, music, started>>

\* lines 119-120, and the thread ends
ThreadClear(i) ==
    /\ threads[i].pc = "clear"
    /\ is_playing' = FALSE
    /\ current_audio_file' = None
    /\ threads' = [threads EXCEPT ![i] = NoThread]
    /\ ev' = Event("thread", threads[i].file, FALSE, music # None, FALSE, NoTime)
    /\ UNCHANGED <<cacheVars, now, call, concVars, appVars,
                   last_recognition_time, last_voice_time, audio_enabled,
                   message_cooldown,
                   last_played, music, started>>

ThreadStep ==
    \/ \E i \in Slots : ThreadBegin(i)
    \/ \E i \in Slots : ThreadLoad(i)
    \/ \E i \in Slots : ThreadRecord(i)
    \/ \E i \in Slots : ThreadWait(i)
    \/ \E i \in Slots : ThreadClear(i)

\* the mixer finishes the file it is playing
PlaybackEnds ==
    /\ music # None
    /\ music' = None
    /\ ev' = Event("end", music, FALSE, FALSE, FALSE, NoTime)
    /\ UNCHANGED <<cacheVars, now, call, concVars, appVars,
                   last_recognition_time, last_voice_time, audio_enabled,
                   message_cooldown,
                   last_played, is_playing, current_audio_file, threads,
                   started>>

\* A playback thread reaches its wait loop, and leaves it once the mixer is
\* quiet, in far less than a Tick: the clock moves only while every live
\* thread is waiting on a busy mixer.
Settled ==
    \A i \in Slots :
        \/ threads[i].pc = "none"
        \/ threads[i].pc = "wait" /\ music # None

AdvanceClock ==
    /\ Settled
    /\ now + Tick <= MaxClock
    /\ now' = now + Tick
    /\ ev' = Event("tick", None, FALSE, music # None, FALSE, NoTime)
    /\ UNCHANGED <<cacheVars, call, concVars, appVars,
                   last_recognition_time, last_voice_time, amVars, started>>

\* ------------------------------------------- MemoryMirrorApp (app.py)
\* what one call of process_frame met and returned: detect and match are the
\* outcomes of detect_faces and recognize_face (None when not called),
\* matcher whether recognize_face was called, result and status the pair
\* returned
FrameEvent(person, eligible, busy, played, status, matcher, detect, match, result) ==
    [Event("frame", person, eligible, busy, played, NoTime)
        EXCEPT !.status = status, !.matcher = matcher, !.detect = detect,
               !.match = match, !.result = result]

Detections == {"faces", "none", "raises"}
Matches == Persons \cup {"unknown", "none", "raises"}
Profiles == {"found", "missing", "raises"}

\* process_frame(frame), lines 172-227.  detect is what detect_faces does
\* with the frame, match what extract_face_region and recognize_face do
\* with its first face, profile what get_person_profile does, message_ok
\* and tts_ok whether the profile's message is not empty and the speech is
\* generated (they are drawn only where they are read).  It touches
\* nothing but the cooldown table and the audio manager.
FrameOnly ==
    UNCHANGED <<cacheVars, now, call, concVars, components, recVars,
                procVars, last_voice_time, started>>

\* lines 176-177
FrameNoDetector ==
    /\ ~components["face_detector"]
    /\ ev' = FrameEvent(None, FALSE, music # None, FALSE, "error", FALSE,
                        None, None, None)
    /\ UNCHANGED <<last_recognition_time, amVars>>
    /\ FrameOnly

FrameNoFace_unknown(detect) ==
    /\ components["face_detector"]
    /\ detect # "faces"
    /\ ev' = FrameEvent(None, FALSE, music # None, FALSE,
                        IF detect = "raises" THEN "error" ELSE "unknown",
                        FALSE, detect, None, None)
    /\ UNCHANGED <<last_recognition_time, amVars>>
    /\ FrameOnly

\* lines 179-182, and 225-227 when detect_faces raises
FrameNoFace(detect) ==
    /\ components["face_detector"]
    /\ detect # "faces"
    /\ ev' = FrameEvent(None, FALSE, music # None, FALSE,
                        IF detect = "raises" THEN "error" ELSE "ready", FALSE,
                        detect, None, None)
    /\ UNCHANGED <<last_recognition_time, amVars>>
    /\ FrameOnly

\* lines 185-186
FrameNoRecognizer(detect) ==
    /\ components["face_detector"]
    /\ detect = "faces"
    /\ ~components["face_recognizer"]
    /\ ev' = FrameEvent(None, FALSE, music # None, FALSE, "unknown", FALSE,
                        detect, None, None)
    /\ UNCHANGED <<last_recognition_time, amVars>>
    /\ FrameOnly

FrameUnknown_recorded(detect, match) ==
    /\ components["face_detector"]
    /\ detect = "faces"
    /\ components["face_recognizer"]
    /\ match \notin Persons
    /\ ev' = FrameEvent(None, FALSE, music # None, FALSE, "unknown", TRUE,
                        detect, match, None)
    /\ last_recognition_time' =
           [p \in Persons |-> IF last_recognition_time[p] = NoTime
                              THEN NoTime ELSE now]
    /\ UNCHANGED amVars
    /\ FrameOnly

\* lines 189-202 and 216-223: no known person
FrameUnknown(detect, match) ==
    /\ components["face_detector"]
    /\ detect = "faces"
    /\ components["face_recognizer"]
    /\ match \notin Persons
    /\ ev' = FrameEvent(None, FALSE, music # None, FALSE, "unknown", TRUE,
                        detect, match, None)
    /\ UNCHANGED <<last_recognition_time, amVars>>
    /\ FrameOnly

\* lines 202-215: a known person
FrameKnown(detect, match, profile, message_ok, tts_ok) ==
    /\ components["face_detector"]
    /\ detect = "faces"
    /\ components["face_recognizer"]
    /\ match \in Persons
    /\ LET eligible == should_play_message(last_recognition_time, match, now)
           lookup == eligible /\ components["person_database"]
           raised == lookup /\ profile = "raises"
           plays == /\ lookup
                    /\ profile = "found"
                    /\ components["audio_manager"]
           r == IF plays
                THEN play_voice_message(AM, match, None, message_ok, tts_ok,
                                        now)
                ELSE [a |-> AM, ret |-> FALSE]
       IN  /\ plays => FreeSlots(AM) # {}
           /\ StoreAM(r.a)
           /\ last_recognition_time' =
                  IF eligible /\ ~raised
                  THEN [last_recognition_time EXCEPT ![match] = now]
                  ELSE last_recognition_time
           /\ ev' = FrameEvent(match, eligible, music # None, r.ret,
                               IF raised THEN "unknown" ELSE "recognized",
                               TRUE, detect, match,
                               IF raised THEN None ELSE match)
    /\ FrameOnly

ProcessFrame ==
    \/ FrameNoDetector
    \/ \E detect \in Detections \ {"faces"} : FrameNoFace(detect)
    \/ \E detect \in {"faces"} : FrameNoRecognizer(detect)
    \/ \E detect \in {"faces"}, match \in Matches \ Persons :
           FrameUnknown(detect, match)
    \/ \E detect \in {"faces"}, match \in Persons, profile \in Profiles :
         \E message_ok \in IF profile = "found" THEN BOOLEAN ELSE {TRUE} :
           \E tts_ok \in IF profile = "found" /\ message_ok THEN BOOLEAN
                         ELSE {TRUE} :
               FrameKnown(detect, match, profile, message_ok, tts_ok)

\* initialize_components returns False when PersonDatabase() raises: an
\* initialized application has its database, and any of the others; before
\* initialize_components every component is None
NoComponents == [c \in ComponentNames |-> FALSE]
ComponentSets ==
    {c \in [ComponentNames -> BOOLEAN] : c["person_database"]}
        \cup {NoComponents}

InitApp == \E c \in ComponentSets : Constructed(MaxCap, c)

\* process_frame called on its own, outside run: the camera loop is not
\* touched
NextApp ==
    \/ AdvanceClock
    \/ FrameNoDetector /\ UNCHANGED runVars
    \/ \E detect \in Detections \ {"faces"} :
           FrameNoFace(detect) /\ UNCHANGED runVars
    \/ \E detect \in {"faces"} : FrameNoRecognizer(detect) /\ UNCHANGED runVars
    \/ \E detect \in {"faces"}, match \in Matches \ Persons :
           FrameUnknown(detect, match) /\ UNCHANGED runVars
    \/ \E detect \in {"faces"}, match \in Persons, profile \in Profiles :
         \E message_ok \in IF profile = "found" THEN BOOLEAN ELSE {TRUE} :
           \E tts_ok \in IF profile = "found" /\ message_ok THEN BOOLEAN
                         ELSE {TRUE} :
               FrameKnown(detect, match, profile, message_ok, tts_ok)
                   /\ UNCHANGED runVars
    \/ ThreadStep
    \/ PlaybackEnds

SpecApp == InitApp /\ [][NextApp]_vars

\* --------------------------------- VideoCapture (src/video/capture.py)
VC == [cap |-> cap, is_initialized |-> is_initialized]

StoreVC(v) ==
    /\ cap' = v.cap
    /\ is_initialized' = v.is_initialized

\* what cv2 does when initialize_camera opens the device: it opens and
\* reads a test frame, it does not open, it opens and then fails to read
\* the test frame, cv2.VideoCapture raises, or a call made after opening
\* raises
CameraOutcomes == {"opened", "not_opened", "no_test_frame", "raises",
                   "raises_open"}

\* cap.release() on the capture held, if any
Released(c) == IF c = None THEN None ELSE "closed"

initialize_camera(v, outcome) ==
    CASE outcome = "opened" ->
           [v |-> [cap |-> "open", is_initialized |-> TRUE], ret |-> TRUE]
      [] outcome = "raises" ->
           [v |-> [v EXCEPT !.cap = Released(v.cap)], ret |-> FALSE]
      [] OTHER ->
           [v |-> [v EXCEPT !.cap = "closed"], ret |-> FALSE]

Reads == {"frame", "none"}

\* get_frame: read is what cap.read() gives
get_frame(v, read) ==
    IF ~v.is_initialized \/ v.cap = None THEN None
    ELSE IF read = "frame" THEN "frame" ELSE None

release_camera_flag_only(v) == [v EXCEPT !.is_initialized = FALSE]

release_camera(v) == [cap |-> None, is_initialized |-> FALSE]

\* ------------------------------------- MemoryMirrorApp.run (app.py)
\* One call of run on an initialized application, lines 336-383.  button is
\* the button pressed for this run, camera and read what the camera does,
\* raises whether the display of the frame raises.
Buttons == {"none", "start", "stop"}

\* lines 338-344
AfterButtons(button) ==
    [camera_running |-> IF button = "start" THEN TRUE
                        ELSE IF button = "stop" THEN FALSE
                        ELSE camera_running,
     v |-> IF button = "stop" THEN release_camera(VC) ELSE VC]

RunEvent == Event("run", None, FALSE, music # None, FALSE, NoTime)

RunOnly ==
    UNCHANGED <<cacheVars, now, call, concVars, components, recVars,
                procVars, last_recognition_time, last_voice_time, amVars,
                started>>

\* the loop is run with the camera that initialize_camera opened
Opened(button) == initialize_camera(AfterButtons(button).v, "opened").v

\* line 347: the camera loop is not running
RunIdle(button) ==
    /\ ~AfterButtons(button).camera_running
    /\ camera_running' = FALSE
    /\ StoreVC(AfterButtons(button).v)
    /\ run_exit' = IF button = "stop" THEN "stopped" ELSE "idle"
    /\ ev' = RunEvent
    /\ RunOnly

\* lines 349-352 and 381-383: the camera does not initialize
RunCameraFails(button, camera) ==
    /\ AfterButtons(button).camera_running
    /\ ~initialize_camera(AfterButtons(button).v, camera).ret
    /\ camera_running' = FALSE
    /\ StoreVC(release_camera(
                  initialize_camera(AfterButtons(button).v, camera).v))
    /\ run_exit' = "camera_failed"
    /\ ev' = RunEvent
    /\ RunOnly

\* lines 355, 373-375 and 381-383: no frame
RunNoFrame(button, read) ==
    /\ AfterButtons(button).camera_running
    /\ get_frame(Opened(button), read) = None
    /\ camera_running' = FALSE
    /\ StoreVC(release_camera(Opened(button)))
    /\ run_exit' = "no_frame"
    /\ ev' = RunEvent
    /\ RunOnly

\* lines 357-359 and 377-383: showing the frame raises
RunImageRaises(button, read) ==
    /\ AfterButtons(button).camera_running
    /\ get_frame(Opened(button), read) # None
    /\ camera_running' = FALSE
    /\ StoreVC(release_camera(Opened(button)))
    /\ run_exit' = "exception"
    /\ ev' = RunEvent
    /\ RunOnly

RunFrame_stops_on_error(button, read, raises) ==
    /\ AfterButtons(button).camera_running
    /\ get_frame(Opened(button), read) # None
    /\ ProcessFrame
    /\ camera_running' = (~raises /\ ev'.status # "error")
    /\ StoreVC(IF raises \/ ev'.status = "error"
               THEN release_camera(Opened(button))
               ELSE Opened(button))
    /\ run_exit' = IF raises THEN "exception"
                   ELSE IF ev'.status = "error" THEN "error" ELSE "rerun"

\* lines 357-372: the frame is shown and processed, the status rendered,
\* and st.rerun() ends this run for the next; or the rendering raises
\* (lines 377-383)
RunFrame(button, read, raises) ==
    /\ AfterButtons(button).camera_running
    /\ get_frame(Opened(button), read) # None
    /\ ProcessFrame
    /\ camera_running' = ~raises
    /\ StoreVC(IF raises THEN release_camera(Opened(button))
               ELSE Opened(button))
    /\ run_exit' = IF raises THEN "exception" ELSE "rerun"

InitRun ==
    \E c \in ComponentSets \ {NoComponents} : Constructed(MaxCap, c)

NextRun ==
    \/ AdvanceClock
    \/ \E button \in Buttons : RunIdle(button)
    \/ \E button \in Buttons, camera \in CameraOutcomes :
           RunCameraFails(button, camera)
    \/ \E button \in Buttons, read \in {"none"} : RunNoFrame(button, read)
    \/ \E button \in Buttons, read \in {"frame"} :
           RunImageRaises(button, read)
    \/ \E button \in Buttons, read \in {"frame"}, raises \in BOOLEAN :
           RunFrame(button, read, raises)
    \/ ThreadStep
    \/ PlaybackEnds

SpecRun == InitRun /\ [][NextRun]_vars

\* --------------------------------- UIController (src/ui/controller.py)
\* update_display(recognition_result, person_profile), lines 55-79, with
\* _play_person_voice_message, lines 276-304.  known: the result is known
\* and comes with the profile of p; the display then shows the person and
\* plays the profile's message, or the default greeting, with person_id p.
\* Otherwise the unknown or the neutral state is shown and nothing played.
UpdateDisplay(p, known, tts_ok) ==
    /\ FreeSlots(AM) # {}
    /\ LET r == IF known /\ audio_enabled
                THEN play_voice_message(AM, p, p, TRUE, tts_ok, now)
                ELSE [a |-> AM, ret |-> FALSE]
       IN  /\ StoreAM(r.a)
           /\ ev' = Event("display", IF known THEN p ELSE None,
                          known /\ ~_is_in_cooldown(AM, p, now),
                          music # None, r.ret, NoTime)
    /\ UNCHANGED <<cacheVars, now, call, concVars, appVars,
                   last_recognition_time, last_voice_time, started>>

SetCooldown(s) ==
    /\ StoreAM(set_message_cooldown(AM, s))
    /\ ev' = Event("set", None, FALSE, music # None, FALSE, NoTime)
    /\ UNCHANGED <<cacheVars, now, call, concVars, appVars,
                   last_recognition_time, last_voice_time, started>>

InitUI == Construct(MaxCap)

NextUI ==
    \/ AdvanceClock
    \/ \E p \in Persons, known \in BOOLEAN, tts_ok \in BOOLEAN :
           UpdateDisplay(p, known, tts_ok)
    \/ \E s \in CooldownInputs : SetCooldown(s)
    \/ ThreadStep
    \/ PlaybackEnds

SpecUI == InitUI /\ [][NextUI]_vars

\* ------------------ FaceRecognizer.recognize_face and its threshold
recognize_face_strict(r, image, cmp, listing) ==
    IF ~r.deepface \/ ~r.is_initialized THEN UnknownResult
    ELSE IF image # "face" THEN UnknownResult
    ELSE IF ~listing THEN UnknownResult
    ELSE LET best == Best(r, cmp)
             confidence == _distance_to_confidence(r, best.distance)
             is_known == confidence > r.confidence_threshold
         IN  Result(IF is_known THEN best.person ELSE "unknown",
                    confidence, is_known, best.distance)

\* recognize_face(face_image), lines 87-174.  image is the face image (None,
\* an empty array or a face), cmp what DeepFace.verify gives for each
\* gallery image, listing whether os.listdir of the persons' directories
\* works.
recognize_face(r, image, cmp, listing) ==
    IF ~r.deepface \/ ~r.is_initialized THEN UnknownResult
    ELSE IF image # "face" THEN UnknownResult
    ELSE IF ~listing THEN UnknownResult
    ELSE LET best == Best(r, cmp)
             confidence == _distance_to_confidence(r, best.distance)
             is_known == confidence >= r.confidence_threshold
         IN  Result(IF is_known THEN best.person ELSE "unknown",
                    confidence, is_known, best.distance)

FaceImages == {None, "empty", "face"}

RecOnly ==
    UNCHANGED <<cacheVars, now, call, concVars, components, runVars,
                procVars, last_recognition_time, last_voice_time, amVars,
                started, ev>>

\* the call gets past the checks of lines 89-103 and lists the gallery
Compares(r, image, listing) ==
    r.deepface /\ r.is_initialized /\ image = "face" /\ listing

RecognizeFace(image, cmp, listing) ==
    /\ recognition' =
           IF Compares(recognizer, image, listing)
           THEN [Recognition(image, listing, TRUE,
                             {i \in AllImages : cmp[i] # Fails},
                             Best(recognizer, cmp),
                             recognizer.confidence_threshold,
                             recognize_face(recognizer, image, cmp, listing))
                   EXCEPT !.distances = cmp]
           ELSE Recognition(image, listing, FALSE, {}, NoCandidate,
                            recognizer.confidence_threshold,
                            recognize_face(recognizer, image, cmp, listing))
    /\ UNCHANGED <<recognizer, conversion>>
    /\ RecOnly

\* thresholds asked for, in fortieths: below 0, 0, 0.4, 0.6, 0.8, 1, above
ThresholdInputs == {-8, 0, 16, 24, 32, 40, 48}

SetConfidenceThreshold(threshold) ==
    /\ recognizer' = set_confidence_threshold(recognizer, threshold)
    /\ UNCHANGED <<recognition, conversion>>
    /\ RecOnly

InitRec ==
    \E deepface \in BOOLEAN, initialized \in BOOLEAN, metric \in Metrics :
        Built(MaxCap, AllComponents,
              NewRecognizer(deepface, initialized, metric))

\* the comparisons matter only to a call that comes to make them
NextRec ==
    \/ \E image \in FaceImages, listing \in BOOLEAN :
           \E cmp \in IF image = "face" /\ listing THEN Comparisons
                      ELSE {[i \in AllImages |-> Fails]} :
               RecognizeFace(image, cmp, listing)
    \/ \E threshold \in ThresholdInputs : SetConfidenceThreshold(threshold)

SpecRec == InitRec /\ [][NextRec]_vars

\* ------------------------- FaceRecognizer._distance_to_confidence alone
\* distances given to the conversion, in fortieths: every twentieth from
\* below 0 to above 2, and float('inf')
DistanceInputs ==
    {2 * n : n \in (0 - NegativeDistances)..MaxDistance} \cup {Inf}

DistanceToConfidence(d) ==
    /\ conversion' = Conversion(d, _distance_to_confidence(recognizer, d))
    /\ UNCHANGED <<recognizer, recognition>>
    /\ RecOnly

InitConf ==
    \E metric \in MetricNames :
        Built(MaxCap, AllComponents, NewRecognizer(TRUE, TRUE, metric))

NextConf == \E d \in DistanceInputs : DistanceToConfidence(d)

SpecConf == InitConf /\ [][NextConf]_vars

\* ------------------------------- FrameProcessor.is_frame_suitable alone
IsFrameSuitable(frame, blur_threshold) ==
    /\ suitability' = Suitability(frame, blur_threshold,
                                  is_frame_suitable(frame, blur_threshold))
    /\ UNCHANGED <<cacheVars, now, call, concVars, components, runVars,
                   recVars, last_recognition_time, last_voice_time, amVars,
                   started, ev>>

InitProc == Construct(MaxCap)

NextProc ==
    \E frame \in Frames, blur_threshold \in BlurThresholds :
        IsFrameSuitable(frame, blur_threshold)

SpecProc == InitProc /\ [][NextProc]_vars

\* ---------------------------------------------------------------- claims
Size == Cardinality(CacheKeys(Self))
NoneExpired == \A k \in Keys : cache[k] # NoEntry => ~is_expired(cache[k], now)
IsGet(k) == call'.op = "get" /\ call'.key = k
IsPut(k) == call'.op = "put" /\ call'.key = k

\* C1: in every reachable state of a cache built with any max_size >= 0 the
\* number of entries is at most max_size.
C1_SizeNeverExceedsMaxSize == Size <= max_size

\* C2: a put of a new fingerprint into a full cache, with no entry expired,
\* removes exactly the fingerprint at the front of the access order (the
\* least recently read or written one) and stores the new one.
C2_EvictsFrontOfAccessOrder ==
    [][\A k \in Keys :
        (IsPut(k) /\ cache[k] = NoEntry /\ Size >= max_size
           /\ access_order # <<>> /\ NoneExpired)
        => /\ {x \in Keys : cache'[x] # NoEntry}
                = (CacheKeys(Self) \ {access_order[1]}) \cup {k}
           /\ call'.removed = {access_order[1]}
           /\ access_order' = Append(Tail(access_order), k)]_vars

\* a full cache of two entries took a new fingerprint and kept an entry that
\* was stored earlier and read since
C2_Witness ==
    /\ call.op = "put" /\ call.removed # {} /\ max_size = 2 /\ Size = 2
    /\ \E y \in Keys \ {call.key} :
          /\ cache[y] # NoEntry /\ cache[y].hit_count > 0
          /\ cache[y].timestamp < now

\* C3: put stores the entry with the time of the call; a get of a stored
\* fingerprint at time t returns the stored result when t - T <= ttl and
\* absent when t - T > ttl (at exactly T + ttl it is a hit).
C3_TtlBoundary ==
    [][\A k \in Keys :
        /\ \A p \in Persons :
              (IsPut(k) /\ call'.arg = p)
              => cache'[k] = [result |-> p, timestamp |-> now, hit_count |-> 0]
        /\ (IsGet(k) /\ cache[k] # NoEntry)
              => IF now - cache[k].timestamp <= ttl_seconds
                 THEN call'.ret = cache[k].result
                 ELSE call'.ret = None]_vars

\* a get exactly ttl seconds after the put was a hit
C3_Witness ==
    /\ call.op = "get" /\ call.ret # None
    /\ now - cache[call.key].timestamp = ttl_seconds

C5_InvalidateFrame ==
    [][/\ (call'.op = "invalidate" /\ call'.arg = None)
            => /\ \A k \in Keys : cache'[k] = NoEntry
               /\ access_order' = <<>>
       /\ \A p \in Persons :
            (call'.op = "invalidate" /\ call'.arg = p)
            => LET gone == {k \in Keys : cache[k] # NoEntry /\ cache[k].result = p}
               IN  /\ \A k \in Keys :
                        cache'[k] = IF k \in gone THEN NoEntry ELSE cache[k]
                   /\ access_order' = WithoutAll(access_order, gone)]_vars

\* invalidate(p) removed p's entries and left another person's entry
C5_Witness ==
    /\ call.op = "invalidate" /\ call.arg \in Persons /\ call.removed # {}
    /\ \E k \in Keys : cache[k] # NoEntry /\ cache[k].result # call.arg

Consistent ==
    /\ \A i, j \in 1..Len(access_order) :
          access_order[i] = access_order[j] => i = j
    /\ Range(access_order) = CacheKeys(Self)

C7_PermitsOnlyAfterCooldown ==
    \A p \in Persons :
        /\ (last_recognition_time[p] # NoTime
              /\ should_play_message(last_recognition_time, p, now))
           => now - last_recognition_time[p] > recognition_cooldown
        /\ (last_played[p] # NoTime /\ ~_is_in_cooldown(AM, p, now))
           => now - last_played[p] > message_cooldown
        /\ (last_voice_time[p] # NoTime
              /\ should_play_voice_message(last_voice_time, p, now, music))
           => now - last_voice_time[p] > voice_cooldown

\* C8: a person never announced is eligible at once, and a person announced
\* at t is eligible at every time later than t + cooldown, at the gate of
\* app.py and at the gate of AudioManager.
C8_EligibleWhenNewOrCooledDown ==
    \A p \in Persons :
        /\ last_recognition_time[p] = NoTime
           => should_play_message(last_recognition_time, p, now)
        /\ last_played[p] = NoTime => ~_is_in_cooldown(AM, p, now)
        /\ (last_recognition_time[p] # NoTime
              /\ now > last_recognition_time[p] + recognition_cooldown)
           => should_play_message(last_recognition_time, p, now)
        /\ (last_played[p] # NoTime /\ now > last_played[p] + message_cooldown)
           => ~_is_in_cooldown(AM, p, now)

\* one person was announced by both gates more than the cooldown of 30 ago,
\* the other never
C8_Witness ==
    \E p, q \in Persons :
        /\ last_recognition_time[p] # NoTime
        /\ now = last_recognition_time[p] + recognition_cooldown + Tick
        /\ last_played[p] # NoTime /\ message_cooldown = 30
        /\ now > last_played[p] + message_cooldown
        /\ last_recognition_time[q] = NoTime /\ last_played[q] = NoTime

\* C9: while an announcement for any person is audibly playing, the
\* announcement gate does not report eligible and no new voice playback is
\* started.
C9_NoAnnouncementWhilePlaying ==
    (ev.kind = "frame" /\ ev.busy) => (~ev.eligible /\ ~ev.played)

\* C10: two playbacks of the same person's message never start less than
\* the cooldown apart.
C10_PlaybacksCooldownApart ==
    (ev.kind = "play" /\ ev.gap # NoTime) => ev.gap >= message_cooldown

\* C11: a frame in which the gate reports the person eligible but no
\* playback is started leaves every last-announced time unchanged.
C11_RecordedOnlyOnSuccess ==
    [][(ev'.kind = "frame" /\ ev'.eligible /\ ~ev'.played)
          => last_recognition_time' = last_recognition_time]_vars

\* C12: a frame in which the detector returns no face is answered with
\* status "ready" and no result; the matcher is not called, no playback is
\* started and no cooldown state changes.
C12_NoFaceIsReady ==
    [][(ev'.kind = "frame" /\ ev'.detect = "none")
          => /\ ev'.status = "ready" /\ ev'.result = None
             /\ ~ev'.matcher /\ ~ev'.played
             /\ UNCHANGED <<last_recognition_time, amVars, started>>]_vars

\* a frame without a face, processed while alice's announcement is recorded
\* and still playing
C12_Witness ==
    /\ ev.kind = "frame" /\ ev.detect = "none" /\ ev.status = "ready"
    /\ last_recognition_time["alice"] # NoTime
    /\ music # None

NextTickGives(st) ==
    \E button \in Buttons :
        RunFrame(button, "frame", FALSE) /\ ev'.status = st

\* C14: a frame answered with status "error" changes no cooldown or audio
\* state and does not stop the loop, and when every component is there the
\* next run can answer "ready", "unknown" or "recognized".
C14_ErrorIsNotTerminal ==
    /\ [][(ev'.kind = "frame" /\ ev'.status = "error")
             => /\ UNCHANGED <<last_recognition_time, amVars, started>>
                /\ run_exit' # "exception" => camera_running']_vars
    /\ []((ev.kind = "frame" /\ ev.status = "error" /\ camera_running
             /\ components = AllComponents /\ FreeSlots(AM) # {})
            => /\ ENABLED NextTickGives("ready")
               /\ ENABLED NextTickGives("unknown")
               /\ ENABLED NextTickGives("recognized"))

\* detect_faces raised in a run made after alice was recognized, and the
\* loop goes on
C14_Witness ==
    /\ ev.kind = "frame" /\ ev.status = "error"
    /\ camera_running /\ run_exit = "rerun"
    /\ components = AllComponents
    /\ last_recognition_time["alice"] # NoTime

\* C15: in a frame with a face the matcher is called only after a lookup
\* of the RecognitionCache that missed, and its result is then stored in
\* the cache.
C15_MatcherOnlyAfterCacheMiss ==
    [][(ev'.kind = "frame" /\ ev'.matcher)
          => /\ total_requests' = total_requests + 1
             /\ miss_count' = miss_count + 1
             /\ cache' # cache]_vars

\* C16: whenever the capture loop is stopped the camera is released: the
\* loop is never stopped with the capture still open.
C16_StoppedLoopHasReleasedCamera ==
    ~camera_running => (cap # "open" /\ ~is_initialized)

\* the loop stopped on each of its exit paths after the camera was open
C16_Witness ==
    /\ ~camera_running /\ cap = None
    /\ run_exit \in {"stopped", "no_frame", "exception"}

\* C17: a single failed frame read leaves the loop running, to be retried
\* on the next tick.
C17_FailedReadKeepsLoopRunning ==
    run_exit = "no_frame" => camera_running

\* C18: recognize_face never raises, and it returns ("unknown", 0, not
\* known) when DeepFace is unavailable, the gallery is not initialised, the
\* image is null or empty, or the matching throws: listing the gallery
\* throws, or every comparison throws and leaves no candidate.
C18_NeverRaisesAndUnknownWhenUnavailable ==
    /\ ~recognition.raised
    /\ (~recognition.reached \/ recognition.compared = {})
          => /\ recognition.result.person_id = "unknown"
             /\ recognition.result.confidence = 0
             /\ ~recognition.result.is_known

\* C19: with a candidate, recognize_face reports it as known exactly when
\* its confidence is at least the threshold; otherwise the identity is
\* "unknown" and not known; the confidence and the distance of the candidate
\* are returned either way.  At threshold 0.6 and cosine metric a distance of
\* 0.2 gives (alice, 0.8, known), a distance of 0.9 (unknown, 0.1, not known).
C19_AcceptedIffConfidenceAtLeastThreshold ==
    (recognition.reached /\ recognition.best # NoCandidate)
      => LET res == recognition.result
             best == recognition.best
         IN  /\ res.is_known <=> res.confidence >= recognition.threshold
             /\ res.person_id = IF res.is_known THEN best.person
                                ELSE "unknown"
             /\ res.distance = best.distance
             /\ res.confidence = _distance_to_confidence(recognizer,
                                                         best.distance)
             /\ (recognizer.distance_metric = "cosine"
                    /\ recognition.threshold = 24 /\ best.person = "alice")
                  => /\ best.distance = 8
                        => res = Result("alice", 32, TRUE, 8)
                     /\ best.distance = 36
                        => res = Result("unknown", 4, FALSE, 36)

\* the candidate's confidence equals the threshold 0.6 and it is accepted
C19_Witness ==
    /\ recognition.reached
    /\ recognition.threshold = 24
    /\ recognition.best = [person |-> "alice", distance |-> 16]
    /\ recognizer.distance_metric = "cosine"
    /\ recognition.result = Result("alice", 24, TRUE, 16)

\* C20: a result is known only with the id of an enrolled person, and a
\* result that is not known has the id "unknown", for every threshold
\* set_confidence_threshold installs and every outcome of the comparisons.
C20_UnknownNeverKnown ==
    /\ recognition.result.is_known
          => recognition.result.person_id \in Persons
    /\ ~recognition.result.is_known
          => recognition.result.person_id = "unknown"

\* C21: the conversion gives a confidence in [0,1] for every distance and
\* metric; for a distance d >= 0 it is max(0, 1 - d / 2) under the euclidean
\* metric and max(0, 1 - d) under cosine, euclidean_l2 and any other name;
\* cosine distance 0.0 gives 1.0, 1.0 gives 0.0, and more than 1.0 gives 0.0.
C21_DistanceToConfidence ==
    conversion.called
      => LET d == conversion.distance
             c == conversion.confidence
             m == recognizer.distance_metric
         IN  /\ 0 <= c /\ c <= ConfScale
             /\ d >= 0
                  => c = IF m = "euclidean"
                         THEN (IF d >= 2 * ConfScale THEN 0
                               ELSE ConfScale - d \div 2)
                         ELSE (IF d >= ConfScale THEN 0 ELSE ConfScale - d)
             /\ (m = "cosine" /\ d = 0) => c = ConfScale
             /\ (m = "cosine" /\ d = ConfScale) => c = 0
             /\ (m = "cosine" /\ d > ConfScale) => c = 0

\* a distance of 1.5 under euclidean_l2 was converted to 0
C21_Witness ==
    /\ conversion.called
    /\ recognizer.distance_metric = "euclidean_l2"
    /\ conversion.distance = 60 /\ conversion.confidence = 0

\* what is_frame_suitable is said to return for a call s on a BGR frame
SuitableAsStated(s) ==
    /\ ~s.frame.null /\ s.frame.size # 0
    /\ s.frame.sharpness >= s.blur_threshold
    /\ too_dark <= s.frame.brightness /\ s.frame.brightness <= too_bright

\* C22 as stated: is_frame_suitable never raises; it returns true exactly
\* when the frame is non-null, non-empty, not less sharp than blur_threshold
\* and of brightness within 30..225; a null or empty frame gives false; and a
\* frame of zero sharpness is rejected whatever its brightness.
C22_SuitableAndUniformRejected ==
    (suitability.called /\ (suitability.frame.bgr \/ suitability.frame.size = 0))
      => /\ ~suitability.raised
         /\ suitability.result <=> SuitableAsStated(suitability)
         /\ suitability.frame.sharpness = 0 => ~suitability.result

\* C22, amended: the same, with the frame of zero sharpness rejected
\* whatever its brightness under every blur_threshold above 0 (the default
\* is 100), and a frame that is not a BGR image rejected without raising.
C22_SuitableAndUniformRejectedAboveZero ==
    suitability.called
      => /\ ~suitability.raised
         /\ (suitability.frame.bgr \/ suitability.frame.size = 0)
              => (suitability.result <=> SuitableAsStated(suitability))
         /\ ~suitability.frame.bgr => ~suitability.result
         /\ (suitability.frame.sharpness = 0 /\ suitability.blur_threshold > 0)
              => ~suitability.result

\* a frame of brightness exactly 225 and sharpness exactly the default
\* threshold was accepted
C22_Witness ==
    /\ suitability.called /\ suitability.result
    /\ suitability.blur_threshold = default_blur_threshold
    /\ suitability.frame.sharpness = default_blur_threshold
    /\ suitability.frame.brightness = too_bright

\* C23: in every state reached by get, put (with its sweep) and invalidate,
\* access_order holds no fingerprint twice and holds exactly the
\* fingerprints that have an entry in the map.
C23_AccessOrderMatchesMap ==
    /\ Cardinality(Range(access_order)) = Len(access_order)
    /\ \A k \in Keys : cache[k] # NoEntry <=> k \in Range(access_order)

\* a stored fingerprint was stored again while another was in the cache,
\* after a get
C23_Witness ==
    /\ call.op = "put" /\ call.removed = {}
    /\ Len(access_order) = 2 /\ total_requests = 1
    /\ cache[call.key].timestamp > cache[access_order[1]].timestamp

\* C24: a get that hits puts the fingerprint at the back of access_order,
\* keeps the order of the others and the set of stored entries; a get of an
\* absent fingerprint changes neither the map nor access_order.
C24_HitMovesToBack ==
    [][\A k \in Keys :
        /\ (IsGet(k) /\ call'.ret # None)
              => /\ access_order'[Len(access_order')] = k
                 /\ WithoutAll(access_order', {k})
                       = WithoutAll(access_order, {k})
                 /\ Len(access_order') = Len(access_order)
                 /\ \A x \in Keys : cache'[x] = NoEntry <=> cache[x] = NoEntry
                 /\ \A x \in Keys \ {k} : cache'[x] = cache[x]
        /\ (IsGet(k) /\ cache[k] = NoEntry)
              => cache' = cache /\ access_order' = access_order]_vars

\* a get hit the fingerprint that was stored first of two and moved it
\* behind the other
C24_Witness ==
    /\ call.op = "get" /\ call.ret # None
    /\ Len(access_order) = 2 /\ access_order[2] = call.key
    /\ cache[access_order[1]].timestamp > cache[call.key].timestamp

\* C25: a get that hits changes no entry's creation timestamp, and a get of
\* a stored fingerprint more than ttl seconds after its timestamp is a miss
\* that returns absent, whatever the entry's hit counter.
C25_ExpiryIndependentOfAccess ==
    [][\A k \in Keys :
        /\ (IsGet(k) /\ call'.ret # None)
              => \A x \in Keys : cache'[x].timestamp = cache[x].timestamp
        /\ (IsGet(k) /\ cache[k] # NoEntry
               /\ now > cache[k].timestamp + ttl_seconds)
              => /\ call'.ret = None
                 /\ miss_count' = miss_count + 1
                 /\ cache'[k] = NoEntry]_vars

\* an entry that had been hit once was found expired by a later get
C25_Witness ==
    /\ call.op = "get" /\ call.ret = None /\ call.removed = {call.key}
    /\ call.hits = 1 /\ hit_count = 1 /\ miss_count = 1

\* the fingerprint a put evicts for room before it stores
EvictedForRoom ==
    IF Size >= max_size /\ access_order # <<>> THEN {access_order[1]} ELSE {}

\* C26: a put sweeps exactly when more than cleanup_interval seconds have
\* passed since last_cleanup: it then leaves no expired entry, keeps every
\* unexpired entry it did not evict for room, and sets last_cleanup to now;
\* any other put removes no entry but the one evicted for room and leaves
\* last_cleanup; get and invalidate never sweep: they leave last_cleanup,
\* and a get removes no entry but its own.
C26_SweepOnlyInPutOncePerInterval ==
    [][/\ call'.op = "put"
            => LET k == call'.key
                   others == Keys \ ({k} \cup EvictedForRoom)
               IN  IF now - last_cleanup > cleanup_interval
                   THEN /\ last_cleanup' = now
                        /\ \A x \in Keys :
                              cache'[x] # NoEntry
                                => now - cache'[x].timestamp <= ttl_seconds
                        /\ \A x \in others :
                              cache'[x] = IF cache[x] # NoEntry
                                            /\ now - cache[x].timestamp
                                                  > ttl_seconds
                                          THEN NoEntry ELSE cache[x]
                   ELSE /\ last_cleanup' = last_cleanup
                        /\ \A x \in others : cache'[x] = cache[x]
       /\ call'.op \in {"get", "invalidate", "tick"}
            => last_cleanup' = last_cleanup
       /\ call'.op = "get"
            => \A x \in Keys \ {call'.key} : cache'[x] = cache[x]]_vars

\* a put more than 60 s after construction evicted one entry for room and
\* swept another that had expired
C26_Witness ==
    /\ call.op = "put" /\ Cardinality(call.removed) = 2
    /\ last_cleanup = now /\ now > StartTime + cleanup_interval

\* C27: every get adds one to total_requests and to exactly one of
\* hit_count (with the hit entry's own counter) and miss_count; put and
\* invalidate change none of the three; total_requests = hit_count +
\* miss_count always, and get_stats reports the three counters.
C27_CountersAddUp ==
    /\ [](/\ total_requests = hit_count + miss_count
          /\ get_stats(Self).total_requests = total_requests
          /\ get_stats(Self).hit_count = hit_count
          /\ get_stats(Self).miss_count = miss_count
          /\ get_stats(Self).total_requests
                = get_stats(Self).hit_count + get_stats(Self).miss_count)
    /\ [][/\ \A k \in Keys :
               IsGet(k)
                 => /\ total_requests' = total_requests + 1
                    /\ IF cache[k] # NoEntry
                            /\ now - cache[k].timestamp <= ttl_seconds
                       THEN /\ hit_count' = hit_count + 1
                            /\ miss_count' = miss_count
                            /\ cache'[k].hit_count = cache[k].hit_count + 1
                       ELSE /\ miss_count' = miss_count + 1
                            /\ hit_count' = hit_count
                    /\ \A x \in Keys \ {k} :
                          cache'[x].hit_count = cache[x].hit_count
          /\ call'.op \in {"put", "invalidate", "tick"}
               => UNCHANGED <<total_requests, hit_count, miss_count>>]_vars

\* after a hit and a miss on an expired entry, a put left the counters
C27_Witness ==
    /\ call.op = "put"
    /\ total_requests = 2 /\ hit_count = 1 /\ miss_count = 1
    /\ now > StartTime + ttl_seconds

\* C29: whenever a voice message is audibly playing, is_playing is true and
\* current_audio_file is set: no playback thread that was stopped or
\* overtaken resets them after a newer playback has started, under every
\* interleaving of the polling thread with the playback threads.
C29_PlayingFlagSetWhilePlaying ==
    music # None => (is_playing /\ current_audio_file # None)

\* C30: a put of a fingerprint that is already stored replaces that entry
\* only: every other unexpired entry stays as it was, also when the cache
\* is at capacity, and when no entry is expired the size is unchanged.
C30_PutOnStoredKeyEvictsNothing ==
    [][\A k \in Keys :
        (IsPut(k) /\ cache[k] # NoEntry)
          => /\ cache'[k] = CacheEntry(call'.arg, now)
             /\ access_order'[Len(access_order')] = k
             /\ \A x \in Keys \ {k} :
                   (cache[x] # NoEntry /\ ~is_expired(cache[x], now))
                     => cache'[x] = cache[x]
             /\ NoneExpired
                   => Cardinality({x \in Keys : cache'[x] # NoEntry}) = Size]_vars

\* the distances of a call r to person p's images that were compared, their
\* sum, and the place of p in the scan
ComparedOf(r, p) == {i \in Images[p] : r.distances[i] # Fails}
SumOf(r, p) == Sum(r.distances, ComparedOf(r, p))
ScanPlace(p) == CHOOSE i \in 1..Len(PersonDirs) : PersonDirs[i] = p

\* C28: the candidate of recognize_face is the enrolled person with the
\* smallest mean distance over the images compared without an error, the
\* one scanned first among equals; a directory without images is not
\* enrolled, and a person without a successful comparison is no candidate;
\* neither is ever the identity returned.
C28_CandidateHasSmallestMeanDistance ==
    /\ \A p \in Range(PersonDirs) :
          Images[p] = {} => p \notin Range(recognizer.known_persons)
    /\ recognition.reached
          => LET r == recognition
                 cands == {p \in Range(PersonDirs) : ComparedOf(r, p) # {}}
                 b == r.best.person
             IN  /\ cands = {} <=> r.best = NoCandidate
                 /\ cands # {}
                      => /\ b \in cands
                         /\ r.best.distance * Cardinality(ComparedOf(r, b))
                               = 4 * SumOf(r, b)
                         /\ \A q \in cands :
                               LET lhs == SumOf(r, b) * Cardinality(ComparedOf(r, q))
                                   rhs == SumOf(r, q) * Cardinality(ComparedOf(r, b))
                               IN  /\ lhs <= rhs
                                   /\ lhs = rhs => ScanPlace(b) <= ScanPlace(q)
                 /\ r.result.person_id \in cands \cup {"unknown"}
                 /\ r.result.person_id # "unknown" => r.result.person_id = b

\* alice, with one of her two images compared, and bob had the same mean
\* distance, and alice, scanned first, was returned
C28_Witness ==
    /\ recognition.reached
    /\ Cardinality(recognition.compared) = 2
    /\ "b1" \in recognition.compared
    /\ recognition.distances["b1"] = recognition.best.distance \div 4
    /\ recognition.result.person_id = "alice"

====
